---- MODULE Spec2Model ----
(***************************************************************************)
(* Package sorter (app_src/src/utils/packageSorter.ts): sort and           *)
(* sortWithDetails, with validateInputs, isBulky and isHeavy, run one      *)
(* statement group at a time by a caller that makes a bounded number of    *)
(* calls; the example catalog testCases; and the form (App.vue script)     *)
(* that loads examples, clears itself and computes its result.             *)
(*                                                                         *)
(* A JavaScript number is a record: kind "fin" with an integer val, one of  *)
(* "nan", "pinf", "ninf" (val 0), or kind "dbl", a double that is not an   *)
(* integer, with its 53-bit mantissa and its exponent.  Products of the    *)
(* integers of the model are below 2^53, so the code's arithmetic is exact *)
(* on them; products with a "dbl" are rounded as IEEE 754 rounds them.     *)
(* The reason strings write the code's U+2265 and U+00B3 as ">=" and "3".  *)
(***************************************************************************)
EXTENDS Integers, FiniteSets, Sequences, TLC

VARIABLES
    calls,       \* number of calls the caller has started
    entry,       \* entry point of the running or last call
    args,        \* its four arguments
    pc,          \* position of the running call
    swdFrame,    \* locals of sortWithDetails assigned so far
    sortFrame,   \* locals of sort assigned so far
    validations, \* runs of validateInputs in the running or last call
    outcome,     \* what the last completed call returned or threw
    memo,        \* an earlier completed call, kept for comparison
    form         \* the form's refs: width, height, length, mass, selectedTestCase

vars == <<calls, entry, args, pc, swdFrame, sortFrame, validations, outcome, memo, form>>

----------------------------------------------------------------------------
(* Bounds *)

MaxCalls == 3

----------------------------------------------------------------------------
(* Numbers *)

NaN == [kind |-> "nan", val |-> 0]
PosInf == [kind |-> "pinf", val |-> 0]
NegInf == [kind |-> "ninf", val |-> 0]
Fin(n) == [kind |-> "fin", val |-> n]

\* The empty string, which an emptied number input leaves in a ref of the form
\* in place of a number.  <=, >=, * and the global isFinite convert it to 0.
EmptyText == [kind |-> "str", val |-> 0]

\* A double that is not an integer: sign * M * 2^e with 2^52 <= M < 2^53, M
\* given by five 13-bit limbs, least significant first (the fifth limb is 1).
\* An input that is an integer is written Fin(n); a product with a Dbl factor
\* is a Dbl, also when its value is an integer, so two products of the same
\* factors are equal numbers iff they are equal records.  The exponents of the
\* model stay far inside the normal range; gradual underflow is not modelled.
Dbl(s, m, e) == [kind |-> "dbl", sign |-> s, m |-> m, e |-> e]

LimbBase == 2^13

\* 2^k for 0 <= k <= 30
Pow2(k) == 2^k

\* limbs of the 10-limb number whose column sums are cols, from column k on
RECURSIVE Carry(_, _, _)
Carry(cols, k, carry) ==
    IF k > Len(cols) THEN <<>>
    ELSE <<(cols[k] + carry) % LimbBase>> \o Carry(cols, k + 1, (cols[k] + carry) \div LimbBase)

\* the exact product of two 5-limb mantissas, as 10 limbs
MantissaProduct(a, b) ==
    LET col(k) ==
            LET terms == {i \in 1..5 : k + 1 - i \in 1..5}
                term[i \in terms] == a[i] * b[k + 1 - i]
                sum[n \in 0..5] ==
                    IF n = 0 THEN 0
                    ELSE sum[n - 1] + (IF n \in terms THEN term[n] ELSE 0)
            IN  sum[5]
    IN  Carry([k \in 1..10 |-> IF k <= 9 THEN col(k) ELSE 0], 1, 0)

\* a 5-limb number shifted right by one bit
HalveLimbs(q) ==
    [i \in 1..5 |-> (q[i] \div 2) + (IF i < 5 THEN (q[i + 1] % 2) * (LimbBase \div 2) ELSE 0)]

\* a 5-limb number plus one
RECURSIVE AddOneFrom(_, _)
AddOneFrom(q, i) ==
    IF i > 5 THEN q
    ELSE IF q[i] + 1 < LimbBase THEN [q EXCEPT ![i] = q[i] + 1]
    ELSE AddOneFrom([q EXCEPT ![i] = 0], i + 1)

\* the product of two doubles of kind "dbl", rounded to nearest, ties to even
MulDbl(a, b) ==
    LET p == MantissaProduct(a.m, b.m)
        wide == p[9] >= 2                    \* the product has 106 bits, not 105
        top == [i \in 1..5 |-> p[i + 4]]
        q0 == IF wide THEN HalveLimbs(top) ELSE top
        halfBit == IF wide THEN p[5] % 2 = 1 ELSE p[4] >= LimbBase \div 2
        below ==
            \/ p[1] # 0 \/ p[2] # 0 \/ p[3] # 0
            \/ IF wide THEN p[4] # 0 ELSE p[4] % (LimbBase \div 2) # 0
        roundUp == halfBit /\ (below \/ q0[1] % 2 = 1)
        q1 == IF roundUp THEN AddOneFrom(q0, 1) ELSE q0
        carried == q1[5] >= 2                \* rounded up to 2^53
        m == IF carried THEN <<0, 0, 0, 0, 1>> ELSE q1
        e == a.e + b.e + (IF wide THEN 53 ELSE 52) + (IF carried THEN 1 ELSE 0)
        s == a.sign * b.sign
    IN  IF e > 971 THEN (IF s > 0 THEN PosInf ELSE NegInf)
        ELSE Dbl(s, m, e)

\* number of bits of n > 0
RECURSIVE BitLength(_)
BitLength(n) == IF n = 0 THEN 0 ELSE 1 + BitLength(n \div 2)

\* the integer n # 0 in the form of Dbl, for a product with a Dbl
ToDbl(n) ==
    LET abs == IF n < 0 THEN -n ELSE n
        k == 53 - BitLength(abs)             \* left shift that normalises
        limb(i) ==
            LET lo == 13 * (i - 1) - k
            IN  IF lo >= 0 THEN (abs \div Pow2(lo)) % LimbBase
                ELSE IF -lo >= 13 THEN 0
                ELSE (abs % Pow2(13 + lo)) * Pow2(-lo)
    IN  Dbl(IF n < 0 THEN -1 ELSE 1, [i \in 1..5 |-> limb(i)], -k)

\* Math.floor of a positive Dbl below 2^31
FloorDbl(x) ==
    LET k == -x.e
        part(i) ==
            LET sh == 13 * (i - 1) - k
            IN  IF sh >= 0 THEN x.m[i] * Pow2(sh)
                ELSE IF -sh >= 13 THEN 0
                ELSE x.m[i] \div Pow2(-sh)
    IN  part(1) + part(2) + part(3) + part(4) + part(5)

\* x <= 0 : false for NaN, true for '' (converted to 0)
LeZero(x) ==
    \/ x.kind = "str"
    \/ x.kind = "ninf"
    \/ x.kind = "fin" /\ x.val <= 0
    \/ x.kind = "dbl" /\ x.sign < 0

\* mutant of GeConst: the comparison written > instead of >=
GeConstStrict(x, c) ==
    \/ x.kind = "pinf"
    \/ x.kind = "fin" /\ x.val > c

\* mutant of GeConst: the comparison written === instead of >=
GeConstEqual(x, c) == x.kind = "fin" /\ x.val = c

\* x >= c, c an integer constant with 1 <= c < 2^31 : false for NaN and for ''
GeConst(x, c) ==
    \/ x.kind = "pinf"
    \/ x.kind = "fin" /\ x.val >= c
    \/ /\ x.kind = "dbl"
       /\ x.sign > 0
       /\ x.e > -53
       /\ (x.e >= -21 \/ FloorDbl(x) >= c)

\* the global isFinite, which converts '' to 0
isFinite(x) == x.kind \in {"fin", "dbl", "str"}

\* sign of a number that is not NaN: -1, 0, 1 ('' counts as 0)
Sign(x) ==
    IF x.kind = "pinf" THEN 1
    ELSE IF x.kind = "ninf" THEN -1
    ELSE IF x.kind = "dbl" THEN x.sign
    ELSE IF x.val > 0 THEN 1
    ELSE IF x.val < 0 THEN -1
    ELSE 0

\* a * b ('' is a zero factor)
Mul(a, b) ==
    IF a.kind = "nan" \/ b.kind = "nan" THEN NaN
    ELSE IF a.kind = "fin" /\ b.kind = "fin" THEN Fin(a.val * b.val)
    ELSE IF Sign(a) * Sign(b) = 0
         THEN (IF isFinite(a) /\ isFinite(b) THEN Fin(0) ELSE NaN)
    ELSE IF isFinite(a) /\ isFinite(b)
         THEN MulDbl(IF a.kind = "fin" THEN ToDbl(a.val) ELSE a,
                     IF b.kind = "fin" THEN ToDbl(b.val) ELSE b)
    ELSE IF Sign(a) * Sign(b) > 0 THEN PosInf
    ELSE NegInf

----------------------------------------------------------------------------
(* Thresholds and messages *)

VolumeThreshold == 1000000
DimensionThreshold == 150
MassThreshold == 20

InvalidRange == "Package dimensions and mass must be positive values greater than 0"
NotFinite == "Package dimensions and mass must be finite numbers"

ReasonRejected == "Package is both bulky and heavy"
ReasonVolumeAndDimension == "Package is bulky (volume >= 1M cm3 and dimension >= 150 cm)"
ReasonVolume == "Package is bulky (volume >= 1,000,000 cm3)"
ReasonDimension == "Package is bulky (dimension >= 150 cm)"
ReasonHeavy == "Package is heavy (mass >= 20 kg)"
ReasonStandard == "Package meets standard criteria"

----------------------------------------------------------------------------
(* The pure functions *)

\* isBulky's local hasLargeDimension, and line 93's dimensionExceeded
hasLargeDimension(width, height, length) ==
    \/ GeConst(width, DimensionThreshold)
    \/ GeConst(height, DimensionThreshold)
    \/ GeConst(length, DimensionThreshold)

\* mutant of Volume: the third factor left out
VolumeWithoutLength(width, height, length) == Mul(width, height)

Volume(width, height, length) == Mul(Mul(width, height), length)

isBulky(width, height, length) ==
    \/ GeConst(Volume(width, height, length), VolumeThreshold)
    \/ hasLargeDimension(width, height, length)

\* mutant of isHeavy: the threshold kept in a module variable that every call raises
isHeavyDriftingThreshold(mass) == GeConst(mass, MassThreshold + calls - 1)

isHeavy(mass) == GeConst(mass, MassThreshold)

\* mutant of validateInputs: the finiteness check placed before the range check
validateInputsFiniteFirst(width, height, length, mass) ==
    IF ~isFinite(width) \/ ~isFinite(height) \/ ~isFinite(length) \/ ~isFinite(mass)
    THEN NotFinite
    ELSE IF LeZero(width) \/ LeZero(height) \/ LeZero(length) \/ LeZero(mass)
    THEN InvalidRange
    ELSE "ok"

\* mutant of validateInputs: the range check written !(x > 0), which NaN satisfies
validateInputsNotPositive(width, height, length, mass) ==
    IF \E x \in {width, height, length, mass} : ~(x.kind = "pinf" \/ (x.kind = "fin" /\ x.val > 0))
    THEN InvalidRange
    ELSE IF ~isFinite(width) \/ ~isFinite(height) \/ ~isFinite(length) \/ ~isFinite(mass)
    THEN NotFinite
    ELSE "ok"

\* validateInputs: "ok", or the message of the Error it throws
validateInputs(width, height, length, mass) ==
    IF LeZero(width) \/ LeZero(height) \/ LeZero(length) \/ LeZero(mass)
    THEN InvalidRange
    ELSE IF ~isFinite(width) \/ ~isFinite(height) \/ ~isFinite(length) \/ ~isFinite(mass)
    THEN NotFinite
    ELSE "ok"

\* mutant of Classify: the either-one branch tested before the both branch
ClassifyEitherFirst(bulky, heavy) ==
    IF bulky \/ heavy THEN "SPECIAL"
    ELSE IF bulky /\ heavy THEN "REJECTED"
    ELSE "STANDARD"

\* the if / else-if / else of sort
Classify(bulky, heavy) ==
    IF bulky /\ heavy THEN "REJECTED"
    ELSE IF bulky \/ heavy THEN "SPECIAL"
    ELSE "STANDARD"

\* mutant of Reason: the bulky branch tested before the REJECTED branch
ReasonBulkyFirst(type, bulky, heavy, volume, width, height, length) ==
    IF bulky THEN
        LET volumeExceeded == GeConst(volume, VolumeThreshold)
            dimensionExceeded == hasLargeDimension(width, height, length)
        IN  IF volumeExceeded /\ dimensionExceeded THEN ReasonVolumeAndDimension
            ELSE IF volumeExceeded THEN ReasonVolume
            ELSE ReasonDimension
    ELSE IF type = "REJECTED" THEN ReasonRejected
    ELSE IF heavy THEN ReasonHeavy
    ELSE ReasonStandard

\* mutant of Reason: volume alone tested before volume and dimension together
ReasonVolumeFirst(type, bulky, heavy, volume, width, height, length) ==
    IF type = "REJECTED" THEN ReasonRejected
    ELSE IF type = "SPECIAL" THEN
        IF bulky /\ ~heavy THEN
            LET volumeExceeded == GeConst(volume, VolumeThreshold)
                dimensionExceeded == hasLargeDimension(width, height, length)
            IN  IF volumeExceeded THEN ReasonVolume
                ELSE IF volumeExceeded /\ dimensionExceeded THEN ReasonVolumeAndDimension
                ELSE ReasonDimension
        ELSE IF heavy /\ ~bulky THEN ReasonHeavy
        ELSE ""
    ELSE ReasonStandard

\* the reason selection of sortWithDetails, from its locals
Reason(type, bulky, heavy, volume, width, height, length) ==
    IF type = "REJECTED" THEN ReasonRejected
    ELSE IF type = "SPECIAL" THEN
        IF bulky /\ ~heavy THEN
            LET volumeExceeded == GeConst(volume, VolumeThreshold)
                dimensionExceeded == hasLargeDimension(width, height, length)
            IN  IF volumeExceeded /\ dimensionExceeded THEN ReasonVolumeAndDimension
                ELSE IF volumeExceeded THEN ReasonVolume
                ELSE ReasonDimension
        ELSE IF heavy /\ ~bulky THEN ReasonHeavy
        ELSE ""
    ELSE ReasonStandard

----------------------------------------------------------------------------
(* Inputs of the calls *)

DimValues ==
    {NegInf, Fin(-1), Fin(0), NaN, PosInf,
     Fin(10), Fin(91), Fin(99), Fin(100), Fin(111), Fin(149), Fin(150)}

MassValues == {NegInf, Fin(-1), Fin(0), NaN, PosInf, Fin(19), Fin(20)}

Inputs == [width : DimValues, height : DimValues, length : DimValues, mass : MassValues]

\* the smaller input set of the runs that compare two calls
HistDimValues == {Fin(0), Fin(10), Fin(100), Fin(150)}

HistMassValues == {NaN, Fin(19), Fin(20)}

HistInputs ==
    [width : HistDimValues, height : HistDimValues, length : HistDimValues,
     mass : HistMassValues]

\* valid inputs below, at and above the thresholds, for the runs that compare
\* a call with one on larger inputs
MonoDimValues == {Fin(10), Fin(100), Fin(200)}

MonoMassValues == {Fin(19), Fin(20), Fin(25)}

MonoInputs ==
    [width : MonoDimValues, height : MonoDimValues, length : MonoDimValues,
     mass : MonoMassValues]

\* dimension triples for the runs that compare a call with one on the same
\* dimensions in another order: 63.422987986828886, 134.65863032002954 and
\* 117.08981197293453 (exact product just below 1,000,000); integers; a zero
\* beside a NaN; a NaN beside Infinity
PermTriples ==
    { << Dbl(1, <<1014, 840, 2334, 8044, 1>>, -47),
         Dbl(1, <<5578, 7972, 1247, 426, 1>>, -45),
         Dbl(1, <<705, 5565, 4062, 6795, 1>>, -46) >>,
      << Fin(10), Fin(100), Fin(150) >>,
      << Fin(91), Fin(99), Fin(111) >>,
      << Fin(0), NaN, Fin(10) >>,
      << NaN, PosInf, Fin(10) >> }

PermMassValues == {Fin(19), Fin(20)}

PermInputs ==
    { [width |-> t[p[1]], height |-> t[p[2]], length |-> t[p[3]], mass |-> m] :
        t \in PermTriples, p \in Permutations({1, 2, 3}), m \in PermMassValues }

Entries == {"sort", "sortWithDetails"}

NoFrame == [n \in {} |-> 0]
NoOutcome == [kind |-> "none"]
NoMemo == [kind |-> "none"]
NoArgs == [width |-> NaN, height |-> NaN, length |-> NaN, mass |-> NaN]

----------------------------------------------------------------------------
(* The example catalog and the form *)

\* mutant of testCases: an example entered with mass 0
testCasesWithZeroMass ==
    << [name |-> "Small Standard Package",
        width |-> Fin(10), height |-> Fin(10), length |-> Fin(10), mass |-> Fin(5)],
       [name |-> "Large Volume (Bulky)",
        width |-> Fin(100), height |-> Fin(100), length |-> Fin(100), mass |-> Fin(15)],
       [name |-> "Long Dimension (Bulky)",
        width |-> Fin(200), height |-> Fin(10), length |-> Fin(10), mass |-> Fin(0)],
       [name |-> "Heavy Package",
        width |-> Fin(50), height |-> Fin(50), length |-> Fin(50), mass |-> Fin(25)],
       [name |-> "Rejected Package",
        width |-> Fin(200), height |-> Fin(100), length |-> Fin(100), mass |-> Fin(30)],
       [name |-> "Edge Case: Exactly 150cm",
        width |-> Fin(150), height |-> Fin(10), length |-> Fin(10), mass |-> Fin(10)],
       [name |-> "Edge Case: Exactly 20kg",
        width |-> Fin(50), height |-> Fin(50), length |-> Fin(50), mass |-> Fin(20)] >>

testCases ==
    << [name |-> "Small Standard Package",
        width |-> Fin(10), height |-> Fin(10), length |-> Fin(10), mass |-> Fin(5)],
       [name |-> "Large Volume (Bulky)",
        width |-> Fin(100), height |-> Fin(100), length |-> Fin(100), mass |-> Fin(15)],
       [name |-> "Long Dimension (Bulky)",
        width |-> Fin(200), height |-> Fin(10), length |-> Fin(10), mass |-> Fin(10)],
       [name |-> "Heavy Package",
        width |-> Fin(50), height |-> Fin(50), length |-> Fin(50), mass |-> Fin(25)],
       [name |-> "Rejected Package",
        width |-> Fin(200), height |-> Fin(100), length |-> Fin(100), mass |-> Fin(30)],
       [name |-> "Edge Case: Exactly 150cm",
        width |-> Fin(150), height |-> Fin(10), length |-> Fin(10), mass |-> Fin(10)],
       [name |-> "Edge Case: Exactly 20kg",
        width |-> Fin(50), height |-> Fin(50), length |-> Fin(50), mass |-> Fin(20)] >>

\* the four numbers of a catalog entry or of the form
ArgsOf(r) == [width |-> r.width, height |-> r.height, length |-> r.length, mass |-> r.mass]

\* testCases.find(tc => tc.name === caseName): the index of the first match, 0 for undefined
FindTestCase(caseName) ==
    LET hits == {i \in 1..Len(testCases) : testCases[i].name = caseName}
    IN  IF hits = {} THEN 0 ELSE CHOOSE i \in hits : \A j \in hits : i <= j

\* the refs as the script sets them up, and as clearForm resets them
DefaultForm ==
    [width |-> Fin(50), height |-> Fin(50), length |-> Fin(50), mass |-> Fin(10),
     selectedTestCase |-> ""]

\* the names loadTestCase is called with: every catalog name and two that are not in it
CaseNames == {testCases[i].name : i \in 1..Len(testCases)} \cup {"No Such Package", ""}

\* the computed result, from what sortWithDetails returned or threw
ResultOf(o) ==
    IF o.kind = "record"
    THEN [data |-> <<o.data>>, error |-> ""]
    ELSE [data |-> <<>>, error |-> o.message]

----------------------------------------------------------------------------
(* State machine *)

Init ==
    /\ calls = 0
    /\ entry = "none"
    /\ args = NoArgs
    /\ pc = "idle"
    /\ swdFrame = NoFrame
    /\ sortFrame = NoFrame
    /\ validations = 0
    /\ outcome = NoOutcome
    /\ memo = NoMemo
    /\ form = DefaultForm

\* a call of entry point e with arguments a begins: fresh frames, no outcome yet
Enter(e, a) ==
    /\ calls' = calls + 1
    /\ entry' = e
    /\ args' = a
    /\ pc' = IF e = "sort" THEN "sort_validate" ELSE "swd_validate"
    /\ swdFrame' = NoFrame
    /\ sortFrame' = NoFrame
    /\ validations' = 0
    /\ outcome' = NoOutcome
    /\ UNCHANGED <<memo, form>>

\* the caller calls either entry point with any four numbers
Call ==
    /\ pc = "idle"
    /\ calls < MaxCalls
    /\ \E e \in Entries, a \in Inputs : Enter(e, a)

\* the same, with the inputs of the runs that compare two calls
CallHist ==
    /\ pc = "idle"
    /\ calls < MaxCalls
    /\ \E e \in Entries, a \in HistInputs : Enter(e, a)

\* mutant of SwdValidate: volume, bulky and heavy computed before validateInputs runs
SwdValidateAfterCompute ==
    /\ pc = "swd_validate"
    /\ validations' = validations + 1
    /\ swdFrame' = [volume |-> Volume(args.width, args.height, args.length),
                    bulky |-> isBulky(args.width, args.height, args.length),
                    heavy |-> isHeavy(args.mass)]
    /\ LET v == validateInputs(args.width, args.height, args.length, args.mass)
       IN  IF v = "ok"
           THEN /\ pc' = "sort_validate"
                /\ UNCHANGED outcome
           ELSE /\ pc' = "done"
                /\ outcome' = [kind |-> "error", message |-> v]
    /\ UNCHANGED <<calls, entry, args, sortFrame, memo, form>>

\* sortWithDetails line 80
SwdValidate ==
    /\ pc = "swd_validate"
    /\ validations' = validations + 1
    /\ LET v == validateInputs(args.width, args.height, args.length, args.mass)
       IN  IF v = "ok"
           THEN /\ pc' = "swd_compute"
                /\ UNCHANGED outcome
           ELSE /\ pc' = "done"
                /\ outcome' = [kind |-> "error", message |-> v]
    /\ UNCHANGED <<calls, entry, args, swdFrame, sortFrame, memo, form>>

\* mutant of SwdCompute: the class derived from the predicates in place, sort not called
SwdComputeWithoutSort ==
    /\ pc = "swd_compute"
    /\ swdFrame' = [volume |-> Volume(args.width, args.height, args.length),
                    bulky |-> isBulky(args.width, args.height, args.length),
                    heavy |-> isHeavy(args.mass),
                    type |-> Classify(isBulky(args.width, args.height, args.length),
                                      isHeavy(args.mass))]
    /\ pc' = "swd_reason"
    /\ UNCHANGED <<calls, entry, args, sortFrame, validations, outcome, memo, form>>

\* mutant of SwdCompute: heavy recomputed in place with > instead of isHeavy's >=
SwdComputeStrictHeavy ==
    /\ pc = "swd_compute"
    /\ swdFrame' = [volume |-> Volume(args.width, args.height, args.length),
                    bulky |-> isBulky(args.width, args.height, args.length),
                    heavy |-> GeConstStrict(args.mass, MassThreshold)]
    /\ pc' = "sort_validate"
    /\ UNCHANGED <<calls, entry, args, sortFrame, validations, outcome, memo, form>>

\* sortWithDetails lines 82-84, then the call of sort on line 85
SwdCompute ==
    /\ pc = "swd_compute"
    /\ swdFrame' = [volume |-> Volume(args.width, args.height, args.length),
                    bulky |-> isBulky(args.width, args.height, args.length),
                    heavy |-> isHeavy(args.mass)]
    /\ pc' = "sort_validate"
    /\ UNCHANGED <<calls, entry, args, sortFrame, validations, outcome, memo, form>>

\* sort line 18
SortValidate ==
    /\ pc = "sort_validate"
    /\ validations' = validations + 1
    /\ LET v == validateInputs(args.width, args.height, args.length, args.mass)
       IN  IF v = "ok"
           THEN /\ pc' = "sort_classify"
                /\ UNCHANGED outcome
           ELSE /\ pc' = "done"
                /\ outcome' = [kind |-> "error", message |-> v]
    /\ UNCHANGED <<calls, entry, args, swdFrame, sortFrame, memo, form>>

\* sort lines 20-29: returns to the caller, or to line 85 of sortWithDetails
SortClassify ==
    /\ pc = "sort_classify"
    /\ LET bulky == isBulky(args.width, args.height, args.length)
           heavy == isHeavy(args.mass)
           type == Classify(bulky, heavy)
       IN  /\ sortFrame' = [bulky |-> bulky, heavy |-> heavy]
           /\ IF entry = "sort"
              THEN /\ pc' = "done"
                   /\ outcome' = [kind |-> "type", type |-> type]
                   /\ UNCHANGED swdFrame
              ELSE /\ pc' = "swd_reason"
                   /\ swdFrame' = swdFrame @@ [type |-> type]
                   /\ UNCHANGED outcome
    /\ UNCHANGED <<calls, entry, args, validations, memo, form>>

\* sortWithDetails lines 87-118
SwdReturn ==
    /\ pc = "swd_reason"
    /\ LET reason == Reason(swdFrame.type, swdFrame.bulky, swdFrame.heavy,
                            swdFrame.volume, args.width, args.height, args.length)
       IN  /\ swdFrame' = swdFrame @@ [reason |-> reason]
           /\ outcome' = [kind |-> "record",
                          data |-> [width |-> args.width,
                                    height |-> args.height,
                                    length |-> args.length,
                                    mass |-> args.mass,
                                    volume |-> swdFrame.volume,
                                    type |-> swdFrame.type,
                                    isBulky |-> swdFrame.bulky,
                                    isHeavy |-> swdFrame.heavy,
                                    reason |-> reason]]
    /\ pc' = "done"
    /\ UNCHANGED <<calls, entry, args, sortFrame, validations, memo, form>>

\* the caller is done with the outcome; nothing of the call is kept
Finish ==
    /\ pc = "done"
    /\ pc' = "idle"
    /\ entry' = "none"
    /\ args' = NoArgs
    /\ swdFrame' = NoFrame
    /\ sortFrame' = NoFrame
    /\ validations' = 0
    /\ outcome' = NoOutcome
    /\ UNCHANGED <<calls, memo, form>>

\* observer: keep one completed call to compare later calls with
Remember ==
    /\ pc = "done"
    /\ memo = NoMemo
    /\ memo' = [kind |-> "call", call |-> calls, entry |-> entry, args |-> args,
                outcome |-> outcome]
    /\ UNCHANGED <<calls, entry, args, pc, swdFrame, sortFrame, validations, outcome, form>>

Next ==
    \/ Call
    \/ SwdValidate
    \/ SwdCompute
    \/ SortValidate
    \/ SortClassify
    \/ SwdReturn
    \/ Finish

Spec == Init /\ [][Next]_vars

NextHist ==
    \/ CallHist
    \/ SwdValidate
    \/ SwdCompute
    \/ SortValidate
    \/ SortClassify
    \/ SwdReturn
    \/ Finish
    \/ Remember

SpecHist == Init /\ [][NextHist]_vars

\* the same, with the inputs of the runs that compare a call with one on larger inputs
CallMono ==
    /\ pc = "idle"
    /\ calls < MaxCalls
    /\ \E e \in Entries, a \in MonoInputs : Enter(e, a)

NextMono ==
    \/ CallMono
    \/ SwdValidate
    \/ SwdCompute
    \/ SortValidate
    \/ SortClassify
    \/ SwdReturn
    \/ Finish
    \/ Remember

SpecMono == Init /\ [][NextMono]_vars

\* the same, with the inputs of the runs that compare orders of the dimensions
CallPerm ==
    /\ pc = "idle"
    /\ calls < MaxCalls
    /\ \E e \in Entries, a \in PermInputs : Enter(e, a)

NextPerm ==
    \/ CallPerm
    \/ SwdValidate
    \/ SwdCompute
    \/ SortValidate
    \/ SortClassify
    \/ SwdReturn
    \/ Finish
    \/ Remember

SpecPerm == Init /\ [][NextPerm]_vars

\* the same, on the entries of the example catalog
CallCatalog ==
    /\ pc = "idle"
    /\ calls < MaxCalls
    /\ \E e \in Entries, i \in 1..Len(testCases) : Enter(e, ArgsOf(testCases[i]))

NextCatalog ==
    \/ CallCatalog
    \/ SwdValidate
    \/ SwdCompute
    \/ SortValidate
    \/ SortClassify
    \/ SwdReturn
    \/ Finish

SpecCatalog == Init /\ [][NextCatalog]_vars

\* mutant of loadTestCase: the refs are reset when no entry has the name
LoadOrReset(caseName) ==
    /\ pc = "idle"
    /\ LET i == FindTestCase(caseName)
       IN  IF i # 0
           THEN form' = [width |-> testCases[i].width,
                         height |-> testCases[i].height,
                         length |-> testCases[i].length,
                         mass |-> testCases[i].mass,
                         selectedTestCase |-> caseName]
           ELSE form' = [width |-> Fin(0), height |-> Fin(0), length |-> Fin(0),
                         mass |-> Fin(0), selectedTestCase |-> caseName]
    /\ UNCHANGED <<calls, entry, args, pc, swdFrame, sortFrame, validations, outcome, memo>>

\* loadTestCase(caseName), between two evaluations of the result
loadTestCase(caseName) ==
    /\ pc = "idle"
    /\ LET i == FindTestCase(caseName)
       IN  IF i # 0
           THEN form' = [width |-> testCases[i].width,
                         height |-> testCases[i].height,
                         length |-> testCases[i].length,
                         mass |-> testCases[i].mass,
                         selectedTestCase |-> caseName]
           ELSE UNCHANGED form
    /\ UNCHANGED <<calls, entry, args, pc, swdFrame, sortFrame, validations, outcome, memo>>

LoadAnyTestCase == \E caseName \in CaseNames : loadTestCase(caseName)

\* clearForm
clearForm ==
    /\ pc = "idle"
    /\ form' = [width |-> Fin(50), height |-> Fin(50), length |-> Fin(50), mass |-> Fin(10),
                selectedTestCase |-> ""]
    /\ UNCHANGED <<calls, entry, args, pc, swdFrame, sortFrame, validations, outcome, memo>>

\* what a number input can leave in its ref: a finite number (here -1, 0,
\* 0.5, 25, 200) or, for an emptied field, the string ''
TypedValues ==
    {Fin(-1), Fin(0), Dbl(1, <<0, 0, 0, 0, 1>>, -53), Fin(25), Fin(200), EmptyText}

\* v-model.number on one of the four inputs: the user edits the field and
\* the ref takes the typed value; selectedTestCase is left as it is
EditInput ==
    /\ pc = "idle"
    /\ \E field \in {"width", "height", "length", "mass"}, v \in TypedValues :
          form' = [form EXCEPT ![field] = v]
    /\ UNCHANGED <<calls, entry, args, pc, swdFrame, sortFrame, validations, outcome, memo>>

\* the computed result is evaluated: sortWithDetails on the four refs
ComputeResult ==
    /\ pc = "idle"
    /\ calls < MaxCalls
    /\ Enter("sortWithDetails", ArgsOf(form))

NextForm ==
    \/ LoadAnyTestCase
    \/ clearForm
    \/ EditInput
    \/ ComputeResult
    \/ SwdValidate
    \/ SwdCompute
    \/ SortValidate
    \/ SortClassify
    \/ SwdReturn
    \/ Finish

SpecForm == Init /\ [][NextForm]_vars

----------------------------------------------------------------------------
(* Vocabulary of the properties, stated on the arguments themselves *)

Positive(x) == x.kind = "fin" /\ x.val > 0

NonPositive(x) == x.kind = "ninf" \/ (x.kind = "fin" /\ x.val <= 0)

NanOrPosInf(x) == x.kind \in {"nan", "pinf"}

Fields == {"width", "height", "length", "mass"}

ValidArgs == \A f \in Fields : Positive(args[f])

\* the product of the three dimensions of a valid input
ArgVolume == args.width.val * args.height.val * args.length.val

ArgVolumeExceeded == ArgVolume >= 1000000

ArgDimensionExceeded ==
    args.width.val >= 150 \/ args.height.val >= 150 \/ args.length.val >= 150

ArgBulky == ArgVolumeExceeded \/ ArgDimensionExceeded

ArgHeavy == args.mass.val >= 20

SortDone == pc = "done" /\ entry = "sort"

DetailsDone == pc = "done" /\ entry = "sortWithDetails"

----------------------------------------------------------------------------
(* C1 *)

\* C1: for every input whose four values are finite and > 0, sort returns
\* (does not throw) one of STANDARD, SPECIAL, REJECTED: REJECTED iff bulky and
\* heavy, SPECIAL iff exactly one of them, STANDARD iff neither, with
\* bulky = (w*h*l >= 1,000,000 or a dimension >= 150) and heavy = (mass >= 20).
C1_SortTotalAndDecided ==
    (SortDone /\ ValidArgs) =>
        /\ outcome.kind = "type"
        /\ outcome.type \in {"STANDARD", "SPECIAL", "REJECTED"}
        /\ (outcome.type = "REJECTED") <=> (ArgBulky /\ ArgHeavy)
        /\ (outcome.type = "SPECIAL") <=> (ArgBulky # ArgHeavy)
        /\ (outcome.type = "STANDARD") <=> (~ArgBulky /\ ~ArgHeavy)

\* sort has rejected a heavy package that is bulky by a dimension alone
C1_Witness ==
    /\ SortDone /\ ValidArgs
    /\ ArgDimensionExceeded /\ ~ArgVolumeExceeded /\ ArgHeavy
    /\ outcome = [kind |-> "type", type |-> "REJECTED"]

----------------------------------------------------------------------------
(* C2 *)

\* C2: whenever at least one of the four values is <= 0 (-Infinity included),
\* sort and sortWithDetails both throw the InvalidRange message, whatever the
\* other values are (NaN and +Infinity included).
C2_NonPositiveIsInvalidRange ==
    (pc = "done" /\ \E f \in Fields : NonPositive(args[f])) =>
        outcome = [kind |-> "error",
                   message |-> "Package dimensions and mass must be positive values greater than 0"]

\* sortWithDetails has thrown InvalidRange on an input holding both a NaN and -Infinity
C2_Witness ==
    /\ DetailsDone
    /\ args.width = NaN
    /\ args.mass = NegInf
    /\ outcome.kind = "error"
    /\ outcome.message = InvalidRange

----------------------------------------------------------------------------
(* C3 *)

\* C3: whenever no value is <= 0 and at least one is NaN or +Infinity, sort and
\* sortWithDetails both throw the NotFinite message; a NaN beside positive
\* values is NotFinite, not InvalidRange.
C3_NonFiniteIsNotFinite ==
    (/\ pc = "done"
     /\ \A f \in Fields : ~NonPositive(args[f])
     /\ \E f \in Fields : NanOrPosInf(args[f])) =>
        outcome = [kind |-> "error",
                   message |-> "Package dimensions and mass must be finite numbers"]

\* sort has thrown NotFinite on a NaN height beside three positive finite values
C3_Witness ==
    /\ SortDone
    /\ args.height = NaN
    /\ Positive(args.width) /\ Positive(args.length) /\ Positive(args.mass)
    /\ outcome.kind = "error"
    /\ outcome.message = NotFinite

----------------------------------------------------------------------------
(* C4 *)

RecordFields ==
    {"width", "height", "length", "mass", "volume", "type", "isBulky", "isHeavy", "reason"}

\* an earlier call of entry point e with the arguments of the call now completed
EarlierSameArgs(e) ==
    /\ memo.kind = "call"
    /\ memo.call < calls
    /\ memo.entry = e
    /\ memo.args = args

\* C4: for every valid input the type field of the record sortWithDetails
\* returns equals what sort returns on the same four inputs, and agrees with the
\* record's own flags: REJECTED iff isBulky and isHeavy, SPECIAL iff exactly
\* one of them, STANDARD iff neither.
C4_DetailsTypeAgreesWithSort ==
    /\ (DetailsDone /\ ValidArgs) =>
          /\ outcome.kind = "record"
          /\ (outcome.data.type = "REJECTED") <=> (outcome.data.isBulky /\ outcome.data.isHeavy)
          /\ (outcome.data.type = "SPECIAL") <=> (outcome.data.isBulky # outcome.data.isHeavy)
          /\ (outcome.data.type = "STANDARD") <=> (~outcome.data.isBulky /\ ~outcome.data.isHeavy)
    /\ (DetailsDone /\ ValidArgs /\ EarlierSameArgs("sort")) =>
          /\ memo.outcome.kind = "type"
          /\ outcome.kind = "record"
          /\ outcome.data.type = memo.outcome.type
    /\ (SortDone /\ ValidArgs /\ EarlierSameArgs("sortWithDetails")) =>
          /\ memo.outcome.kind = "record"
          /\ outcome.kind = "type"
          /\ outcome.type = memo.outcome.data.type

\* sortWithDetails has returned a SPECIAL record for a heavy package on which
\* an earlier sort call returned SPECIAL too
C4_Witness ==
    /\ DetailsDone /\ ValidArgs /\ EarlierSameArgs("sort")
    /\ ArgHeavy /\ ~ArgBulky
    /\ memo.outcome = [kind |-> "type", type |-> "SPECIAL"]
    /\ outcome.kind = "record"
    /\ outcome.data.type = "SPECIAL"

----------------------------------------------------------------------------
(* C5 *)

\* C5: for every valid input the record of sortWithDetails has exactly the nine
\* fields width, height, length, mass, volume, type, isBulky, isHeavy, reason;
\* the four inputs unchanged, volume = width*height*length,
\* isBulky = (volume >= 1,000,000 or a dimension >= 150), isHeavy = (mass >= 20).
C5_RecordCarriesInputsAndFacts ==
    (DetailsDone /\ ValidArgs) =>
        /\ outcome.kind = "record"
        /\ DOMAIN outcome.data = RecordFields
        /\ \A f \in Fields : outcome.data[f] = args[f]
        /\ outcome.data.volume = [kind |-> "fin", val |-> ArgVolume]
        /\ outcome.data.isBulky = ArgBulky
        /\ outcome.data.isHeavy = ArgHeavy

\* sortWithDetails has returned the record of 100 x 100 x 100 at mass 19
C5_Witness ==
    /\ DetailsDone
    /\ args = [width |-> Fin(100), height |-> Fin(100), length |-> Fin(100), mass |-> Fin(19)]
    /\ outcome.kind = "record"
    /\ outcome.data.volume = Fin(1000000)
    /\ outcome.data.isBulky
    /\ ~outcome.data.isHeavy

----------------------------------------------------------------------------
(* C6 *)

\* C6: for every valid input the reason of sortWithDetails is 'Package is both
\* bulky and heavy' when the package is bulky and heavy (whichever bulky
\* sub-condition holds), 'Package is heavy (mass >= 20 kg)' when it is heavy
\* and not bulky, 'Package meets standard criteria' when it is neither.
C6_ReasonPriority ==
    (DetailsDone /\ ValidArgs) =>
        /\ outcome.kind = "record"
        /\ (ArgBulky /\ ArgHeavy) => outcome.data.reason = "Package is both bulky and heavy"
        /\ (ArgHeavy /\ ~ArgBulky) => outcome.data.reason = "Package is heavy (mass >= 20 kg)"
        /\ (~ArgBulky /\ ~ArgHeavy) => outcome.data.reason = "Package meets standard criteria"

\* sortWithDetails has given the both-bulky-and-heavy reason to a heavy package
\* that is bulky by volume alone
C6_Witness ==
    /\ DetailsDone /\ ValidArgs
    /\ ArgVolumeExceeded /\ ~ArgDimensionExceeded /\ ArgHeavy
    /\ outcome.kind = "record"
    /\ outcome.data.reason = ReasonRejected

----------------------------------------------------------------------------
(* C7 *)

\* C7: for every valid input that is bulky and not heavy the reason cites
\* volume and dimension when volume >= 1,000,000 and a dimension >= 150 both
\* hold, volume alone when only the volume holds, dimension alone when only a
\* dimension holds; exactly one of the three cases applies.
C7_BulkyReasonSubcases ==
    (DetailsDone /\ ValidArgs /\ ArgBulky /\ ~ArgHeavy) =>
        /\ outcome.kind = "record"
        /\ (ArgVolumeExceeded /\ ArgDimensionExceeded) =>
              outcome.data.reason = ReasonVolumeAndDimension
        /\ (ArgVolumeExceeded /\ ~ArgDimensionExceeded) =>
              outcome.data.reason = ReasonVolume
        /\ (ArgDimensionExceeded /\ ~ArgVolumeExceeded) =>
              outcome.data.reason = ReasonDimension
        /\ Cardinality({r \in {ReasonVolumeAndDimension, ReasonVolume, ReasonDimension} :
                          outcome.data.reason = r}) = 1
        /\ Cardinality({c \in {<<TRUE, TRUE>>, <<TRUE, FALSE>>, <<FALSE, TRUE>>} :
                          c = <<ArgVolumeExceeded, ArgDimensionExceeded>>}) = 1

\* sortWithDetails has cited volume and dimension for a light package over both limits
C7_Witness ==
    /\ DetailsDone /\ ValidArgs
    /\ ArgVolumeExceeded /\ ArgDimensionExceeded /\ ~ArgHeavy
    /\ outcome.kind = "record"
    /\ outcome.data.reason = ReasonVolumeAndDimension

----------------------------------------------------------------------------
(* C8 *)

\* the completed call had these four finite arguments
At(w, h, l, m) ==
    /\ pc = "done"
    /\ args = [width |-> Fin(w), height |-> Fin(h), length |-> Fin(l), mass |-> Fin(m)]

\* isBulky gave b, isHeavy gave h and the class is t, in sort's locals and in
\* what the entry point returned
Got(b, h, t) ==
    /\ sortFrame = [bulky |-> b, heavy |-> h]
    /\ IF entry = "sort"
       THEN outcome = [kind |-> "type", type |-> t]
       ELSE /\ outcome.kind = "record"
            /\ outcome.data.isBulky = b
            /\ outcome.data.isHeavy = h
            /\ outcome.data.type = t

\* C8: the thresholds are inclusive and exact.  isBulky is true at volume
\* exactly 1,000,000 with every dimension below 150 and at one dimension
\* exactly 150 (in each position) with volume below 1,000,000, false at volume
\* 999,999 and at dimension 149; isHeavy is true at mass exactly 20, false at
\* 19.  At exactly one threshold the class is SPECIAL, at a bulky threshold
\* with mass 20 REJECTED, just below all thresholds STANDARD.
C8_ThresholdsInclusive ==
    /\ At(100, 100, 100, 19) => Got(TRUE, FALSE, "SPECIAL")
    /\ At(111, 91, 99, 19) => Got(FALSE, FALSE, "STANDARD")
    /\ At(150, 10, 10, 19) => Got(TRUE, FALSE, "SPECIAL")
    /\ At(10, 150, 10, 19) => Got(TRUE, FALSE, "SPECIAL")
    /\ At(10, 10, 150, 19) => Got(TRUE, FALSE, "SPECIAL")
    /\ At(149, 10, 10, 19) => Got(FALSE, FALSE, "STANDARD")
    /\ At(10, 149, 10, 19) => Got(FALSE, FALSE, "STANDARD")
    /\ At(10, 10, 149, 19) => Got(FALSE, FALSE, "STANDARD")
    /\ At(10, 10, 10, 20) => Got(FALSE, TRUE, "SPECIAL")
    /\ At(10, 10, 10, 19) => Got(FALSE, FALSE, "STANDARD")
    /\ At(100, 100, 100, 20) => Got(TRUE, TRUE, "REJECTED")
    /\ At(150, 10, 10, 20) => Got(TRUE, TRUE, "REJECTED")
    /\ At(10, 150, 10, 20) => Got(TRUE, TRUE, "REJECTED")
    /\ At(10, 10, 150, 20) => Got(TRUE, TRUE, "REJECTED")
    /\ At(111, 91, 99, 20) => Got(FALSE, TRUE, "SPECIAL")
    /\ At(149, 149, 10, 19) => Got(FALSE, FALSE, "STANDARD")

\* sort has returned STANDARD at volume 999,999, mass 19, no dimension at 150
C8_Witness ==
    /\ At(111, 91, 99, 19)
    /\ entry = "sort"
    /\ ArgVolume = 999999
    /\ sortFrame = [bulky |-> FALSE, heavy |-> FALSE]
    /\ outcome = [kind |-> "type", type |-> "STANDARD"]

----------------------------------------------------------------------------
(* C9 *)

Computed == swdFrame # NoFrame \/ sortFrame # NoFrame

\* C9: a call ends in an error or in a complete result, never both and never
\* a partial result; when validation fails nothing has been computed or
\* returned; volume, bulky, heavy, classification and reason are computed only
\* after validateInputs has run and passed.
C9_ErrorOrCompleteResult ==
    /\ outcome.kind \in {"none", "error", "type", "record"}
    /\ (outcome.kind = "none") <=> (pc # "done")
    /\ outcome.kind = "error" =>
          /\ DOMAIN outcome = {"kind", "message"}
          /\ ~Computed
    /\ outcome.kind = "type" =>
          /\ DOMAIN outcome = {"kind", "type"}
          /\ entry = "sort"
    /\ outcome.kind = "record" =>
          /\ DOMAIN outcome = {"kind", "data"}
          /\ DOMAIN outcome.data = RecordFields
          /\ entry = "sortWithDetails"
    /\ (pc = "done" /\ ~ValidArgs) => outcome.kind = "error"
    /\ (Computed \/ outcome.kind \in {"type", "record"}) =>
          /\ validations >= 1
          /\ ValidArgs

\* sortWithDetails has thrown on its first validation with no local assigned
C9_Witness ==
    /\ DetailsDone
    /\ ~ValidArgs
    /\ validations = 1
    /\ outcome.kind = "error"
    /\ swdFrame = NoFrame
    /\ sortFrame = NoFrame

----------------------------------------------------------------------------
(* C10 *)

\* C10: two calls of the same entry point with identical inputs have identical
\* outcomes (the same class, the same record field by field, or the same
\* error), whatever calls were made before or between them.
C10_SameCallSameOutcome ==
    (pc = "done" /\ EarlierSameArgs(entry)) => outcome = memo.outcome

\* the third call repeats the first, which was kept, and returns the same record
C10_Witness ==
    /\ pc = "done"
    /\ EarlierSameArgs(entry)
    /\ memo.call = 1
    /\ calls = 3
    /\ outcome.kind = "record"
    /\ outcome = memo.outcome

----------------------------------------------------------------------------
(* C11 *)

\* C11: sortWithDetails runs validateInputs itself before anything else and
\* then calls sort, which validates again: a successful sortWithDetails call
\* has run validation exactly twice, a failing one exactly once without
\* reaching sort, and the validation inside sort sees inputs that already
\* passed, so it never fails.  A call of sort alone validates once.
C11_ValidationRuns ==
    /\ pc = "swd_validate" => (validations = 0 /\ ~Computed)
    /\ (DetailsDone /\ outcome.kind = "record") => validations = 2
    /\ (DetailsDone /\ outcome.kind = "error") => (validations = 1 /\ sortFrame = NoFrame)
    /\ (entry = "sortWithDetails" /\ pc = "sort_validate") => (validations = 1 /\ ValidArgs)
    /\ (entry = "sortWithDetails" /\ validations = 2) => outcome.kind # "error"
    /\ DetailsDone => outcome.kind \in {"record", "error"}
    /\ SortDone => validations = 1

\* sortWithDetails has returned a record after two validations
C11_Witness ==
    /\ DetailsDone
    /\ outcome.kind = "record"
    /\ validations = 2
    /\ sortFrame # NoFrame

----------------------------------------------------------------------------
(* C13 *)

SixReasons ==
    {ReasonRejected, ReasonVolumeAndDimension, ReasonVolume, ReasonDimension,
     ReasonHeavy, ReasonStandard}

\* C13: for every valid input the reason sortWithDetails returns is one of the
\* six fixed non-empty strings, never the initial empty string: whenever sort
\* returned SPECIAL, one of 'bulky and not heavy', 'heavy and not bulky' holds
\* of sortWithDetails' own locals.
C13_ReasonNeverEmpty ==
    /\ "" \notin SixReasons
    /\ (DetailsDone /\ ValidArgs) =>
          /\ outcome.kind = "record"
          /\ outcome.data.reason \in SixReasons
          /\ outcome.data.reason # ""
    /\ (pc = "swd_reason" /\ swdFrame.type = "SPECIAL") =>
          \/ swdFrame.bulky /\ ~swdFrame.heavy
          \/ swdFrame.heavy /\ ~swdFrame.bulky

\* sortWithDetails has returned the heavy-only reason for a SPECIAL package at mass 20
C13_Witness ==
    /\ DetailsDone /\ ValidArgs
    /\ args.mass = Fin(20)
    /\ outcome.kind = "record"
    /\ outcome.data.type = "SPECIAL"
    /\ outcome.data.reason = ReasonHeavy

----------------------------------------------------------------------------
(* C12 *)

\* C12: every entry of testCases is a valid input (its four values finite and
\* > 0), so sort and sortWithDetails succeed on each of the seven entries.
C12_CatalogEntriesValid ==
    /\ Len(testCases) = 7
    /\ \A i \in 1..Len(testCases) : \A f \in Fields : Positive(testCases[i][f])
    /\ pc # "idle" => \E i \in 1..Len(testCases) : args = ArgsOf(testCases[i])
    /\ SortDone => outcome.kind = "type"
    /\ DetailsDone => outcome.kind = "record"

\* sort has returned REJECTED on the catalog's 'Rejected Package'
C12_Witness ==
    /\ SortDone
    /\ \E i \in 1..Len(testCases) :
          /\ testCases[i].name = "Rejected Package"
          /\ args = ArgsOf(testCases[i])
    /\ outcome = [kind |-> "type", type |-> "REJECTED"]

----------------------------------------------------------------------------
(* C16 *)

\* the form holds the defaults, or the values and the name of a catalog entry
FormFromCatalogOrDefault ==
    \/ form = [width |-> Fin(50), height |-> Fin(50), length |-> Fin(50), mass |-> Fin(10),
               selectedTestCase |-> ""]
    \/ \E i \in 1..Len(testCases) :
          /\ ArgsOf(form) = ArgsOf(testCases[i])
          /\ form.selectedTestCase = testCases[i].name

\* what holds in every state of the form, edited or not
C16_FormInvariant ==
    /\ pc # "idle" => args = ArgsOf(form)
    /\ (FormFromCatalogOrDefault /\ DetailsDone) =>
          /\ ResultOf(outcome).error = ""
          /\ ResultOf(outcome).data # <<>>
    /\ (DetailsDone /\ form = DefaultForm) =>
          /\ outcome.kind = "record"
          /\ outcome.data.type = "STANDARD"

\* C16: from the initial form (50, 50, 50, 10, no selection) and after any
\* sequence of loadTestCase(name) and clearForm, with name in the catalog or
\* not, the form holds the defaults or a catalog entry and the computed result
\* is never an error (error empty, data non-null); loadTestCase with a name
\* not in the catalog changes neither the four inputs nor selectedTestCase;
\* clearForm always yields the defaults, no selection and a STANDARD result.
\* Stated step by step, so that it is checked with the edits of the number
\* inputs among the steps: the initial form is the defaults; loadTestCase and
\* clearForm lead from a form of defaults or a catalog entry to such a form;
\* the result of such a form is never an error.
C16_FormNeverInError ==
    /\ FormFromCatalogOrDefault
    /\ [][((LoadAnyTestCase \/ clearForm) /\ FormFromCatalogOrDefault)
              => FormFromCatalogOrDefault']_vars
    /\ []C16_FormInvariant
    /\ [][(\E n \in CaseNames :
              /\ \A i \in 1..Len(testCases) : testCases[i].name # n
              /\ loadTestCase(n)) => form' = form]_vars
    /\ [][clearForm =>
              form' = [width |-> Fin(50), height |-> Fin(50), length |-> Fin(50),
                       mass |-> Fin(10), selectedTestCase |-> ""]]_vars

\* after an earlier evaluation, the result of the loaded 'Rejected Package' is a REJECTED record
C16_Witness ==
    /\ DetailsDone
    /\ calls >= 2
    /\ form.selectedTestCase = "Rejected Package"
    /\ ResultOf(outcome).error = ""
    /\ outcome.data.type = "REJECTED"

\* an edited form: the width typed as 0, or emptied, and the result an error
FormEditedInError ==
    /\ DetailsDone
    /\ form.width \in {Fin(0), EmptyText}
    /\ ArgsOf([form EXCEPT !.width = Fin(50)]) = ArgsOf(DefaultForm)
    /\ ResultOf(outcome) = [data |-> <<>>, error |-> InvalidRange]

----------------------------------------------------------------------------
(* C14 *)

Rank(t) == CASE t = "STANDARD" -> 0 [] t = "SPECIAL" -> 1 [] t = "REJECTED" -> 2

Dimensions == {"width", "height", "length"}

\* a and b are valid and a's fields in F are at most b's
ValidAndLeq(a, b, F) ==
    /\ \A f \in Fields : Positive(a[f]) /\ Positive(b[f])
    /\ \A f \in F : a[f].val <= b[f].val

\* an earlier call of entry point e is kept and a later call of e has completed
TwoCallsOf(e) ==
    /\ pc = "done"
    /\ entry = e
    /\ memo.kind = "call"
    /\ memo.call < calls
    /\ memo.entry = e

\* C14: with STANDARD < SPECIAL < REJECTED, for two valid inputs of which the
\* second has each of width, height, length, mass >= the first's, sort of the
\* second is >= sort of the first; isBulky never turns from true to false when
\* dimensions grow, nor isHeavy when mass grows.
C14_Monotone ==
    /\ (TwoCallsOf("sort") /\ ValidAndLeq(memo.args, args, Fields)) =>
          Rank(memo.outcome.type) <= Rank(outcome.type)
    /\ (TwoCallsOf("sort") /\ ValidAndLeq(args, memo.args, Fields)) =>
          Rank(outcome.type) <= Rank(memo.outcome.type)
    /\ (TwoCallsOf("sortWithDetails") /\ ValidAndLeq(memo.args, args, Dimensions)) =>
          (memo.outcome.data.isBulky => outcome.data.isBulky)
    /\ (TwoCallsOf("sortWithDetails") /\ ValidAndLeq(args, memo.args, Dimensions)) =>
          (outcome.data.isBulky => memo.outcome.data.isBulky)
    /\ (TwoCallsOf("sortWithDetails") /\ ValidAndLeq(memo.args, args, {"mass"})) =>
          (memo.outcome.data.isHeavy => outcome.data.isHeavy)
    /\ (TwoCallsOf("sortWithDetails") /\ ValidAndLeq(args, memo.args, {"mass"})) =>
          (outcome.data.isHeavy => memo.outcome.data.isHeavy)

\* sort returned SPECIAL on an input at the volume threshold and now REJECTED
\* on a larger and heavier one
C14_Witness ==
    /\ TwoCallsOf("sort")
    /\ ValidAndLeq(memo.args, args, Fields)
    /\ memo.args = [width |-> Fin(100), height |-> Fin(100), length |-> Fin(100),
                    mass |-> Fin(19)]
    /\ args.width = Fin(200)
    /\ args.mass = Fin(25)
    /\ memo.outcome = [kind |-> "type", type |-> "SPECIAL"]
    /\ outcome = [kind |-> "type", type |-> "REJECTED"]

----------------------------------------------------------------------------
(* C15 *)

\* an earlier call of the running entry point is kept whose dimensions are
\* those of the completed call in some order, with the same mass
EarlierPermuted ==
    /\ pc = "done"
    /\ memo.kind = "call"
    /\ memo.call < calls
    /\ memo.entry = entry
    /\ memo.args.mass = args.mass
    /\ \E p \in Permutations(Dimensions) : \A f \in Dimensions : memo.args[f] = args[p[f]]

\* the two outcomes are the same class, the same error, or records with the
\* same volume, type, isBulky, isHeavy and reason
SameUpToOrder(o1, o2) ==
    /\ o1.kind = o2.kind
    /\ o1.kind \in {"type", "error"} => o1 = o2
    /\ o1.kind = "record" =>
          \A f \in {"volume", "type", "isBulky", "isHeavy", "reason"} : o1.data[f] = o2.data[f]

\* C15: the outcome of sort is the same for every ordering of three values
\* a, b, c as width, height, length with the same mass (valid or not): the same
\* class or the same error; for sortWithDetails volume, type, isBulky, isHeavy
\* and reason are the same.
C15_PermutationInvariant ==
    EarlierPermuted => SameUpToOrder(memo.outcome, outcome)

\* C15, where it holds: every ordering fails or succeeds alike, with the same
\* error and the same isHeavy; when the three dimensions are integers (their
\* products exact) the whole outcome is the same.
C15_InvariantWhenExact ==
    EarlierPermuted =>
        /\ outcome.kind = memo.outcome.kind
        /\ outcome.kind = "error" => outcome = memo.outcome
        /\ outcome.kind = "record" => outcome.data.isHeavy = memo.outcome.data.isHeavy
        /\ (\A f \in Dimensions : args[f].kind # "dbl") =>
              SameUpToOrder(memo.outcome, outcome)

\* sortWithDetails has returned the same facts for 10 x 100 x 150 in two orders
C15_ExactWitness ==
    /\ EarlierPermuted
    /\ entry = "sortWithDetails"
    /\ memo.args # args
    /\ {args.width, args.height, args.length} = {Fin(10), Fin(100), Fin(150)}
    /\ outcome.kind = "record"
    /\ outcome.data.isBulky
    /\ SameUpToOrder(memo.outcome, outcome)

====
